---- MODULE Spec2Model ----
(***************************************************************************)
(* The real-time synchronization client of BrandPulseAI:                   *)
(*   - the useWebSocket hook (connection manager, heartbeat, reconnect,    *)
(*     message router, brand subscriptions), and                           *)
(*   - the WebSocketProvider (the store of recent mentions and dashboard   *)
(*     statistics fed by the hook's onMessage callback and by the initial  *)
(*     REST load).                                                         *)
(* Everything runs on one event loop: every handler below is one atomic    *)
(* step.  WebSocket objects, timeouts and intervals carry no identity the  *)
(* code reads (no handler looks at which socket fired it), so the model    *)
(* keeps the socket wsRef.current refers to and counts the others.         *)
(***************************************************************************)
EXTENDS Integers, Sequences, FiniteSets, TLC

VARIABLES
  phase,                 \* "init" (rendered, effects not run), "mounted", "unmounted"
  status,                \* useState<ConnectionStatus>
  lastMessage,           \* useState<WebSocketMessage | null>
  wsRef,                 \* wsRef.current: "null", or the state of the socket it refers to
  orphans,               \* sockets not closed that wsRef.current no longer refers to, per state
  pendingClose,          \* the socket whose error event fired and whose close event follows in the same task
  reconnectAttemptsRef,  \* reconnectAttemptsRef.current
  timeouts,              \* number of pending setTimeout timers
  reconnectTimeoutRef,   \* reconnectTimeoutRef.current: "null", a "pending" timer, or one that "fired"
  intervals,             \* number of active setInterval timers
  heartbeatIntervalRef,  \* heartbeatIntervalRef.current: "null" or an "active" interval
  realtimeMentions,      \* useState<Mention[]>
  dashboardStats,        \* useState<DashboardStats | null>
  lastUpdate,            \* useState<string | null>
  loadPc,                \* position of loadInitialData
  nMentions,             \* number of new_mention payloads produced so far (names the next entity)
  tx,                    \* history: messages transmitted by the last step
  forwarded,             \* history: messages the last step passed to onMessage
  subscriptions,         \* history: brands subscribed and not since unsubscribed
  queued,                \* history: of these, the ones subscribed while the status was not CONNECTED, no socket opened since
  abnormalCloses,        \* history: abnormal closes since the counter was last reset
  run,                   \* history: new mentions inserted since the buffer was last set or cleared
  autoAttempts,          \* history: sockets created by reconnect timers since the counter was last reset
  userClosed,            \* history: disconnect() was called and connect() has not been called since
  ev                     \* history: the handler the last step ran

vars == <<phase, status, lastMessage, wsRef, orphans, pendingClose,
          reconnectAttemptsRef, timeouts, reconnectTimeoutRef, intervals,
          heartbeatIntervalRef, realtimeMentions, dashboardStats, lastUpdate, loadPc,
          nMentions, tx, forwarded, subscriptions, queued, abnormalCloses, autoAttempts, run, userClosed, ev>>

(***************************************************************************)
(* Bounds of the model                                                     *)
(***************************************************************************)
MaxOrphans == 1
MaxTimers == 2
MaxIntervals == 2
MaxCount == 6
MaxMentions == 52
MaxRouted == 2
MaxCopies == 2

(***************************************************************************)
(* Program constants                                                       *)
(***************************************************************************)
maxReconnectAttempts == 5
Capacity == 50
NormalClosure == 1000

CONNECTING == "connecting"
CONNECTED == "connected"
DISCONNECTED == "disconnected"
ERROR == "error"
RECONNECTING == "reconnecting"
ConnectionStatus == {CONNECTING, CONNECTED, DISCONNECTED, ERROR, RECONNECTING}

Topics == {42}

(***************************************************************************)
(* Messages                                                                *)
(***************************************************************************)
Null == [k |-> "null"]
NoData == [k |-> "none"]
Mention(n) == [k |-> "mention", id |-> n]

\* the data of a sentiment_update: the new sentiment of mention n
Sentiment(n) == [k |-> "sentiment", id |-> n]

\* WebSocketMessage: type, status and data (message, timestamp and brand_id
\* of an inbound message are never read by the client)
Message(type, st, data) == [type |-> type, status |-> st, data |-> data]

\* the three messages the client sends
Subscribe(brandId) == [type |-> "subscribe", brand_id |-> brandId]
Unsubscribe(brandId) == [type |-> "unsubscribe", brand_id |-> brandId]
Ping == [type |-> "ping", brand_id |-> 0]

\* event.data of a message event: text that JSON.parse accepts, or not
Json(m) == [json |-> TRUE, msg |-> m]
Garbage == [json |-> FALSE, msg |-> Null]

\* if (message.data)
Truthy(d) == d # NoData /\ d # Null

\* number of elements of the sequence xs that equal m
Count(xs, m) == Cardinality({i \in 1..Len(xs) : xs[i] = m})

(***************************************************************************)
(* The state the handlers read and write, as one record                    *)
(***************************************************************************)
Cur ==
  [status |-> status, lastMessage |-> lastMessage, wsRef |-> wsRef,
   orphans |-> orphans,
   reconnectAttemptsRef |-> reconnectAttemptsRef,
   timeouts |-> timeouts, reconnectTimeoutRef |-> reconnectTimeoutRef,
   intervals |-> intervals, heartbeatIntervalRef |-> heartbeatIntervalRef,
   realtimeMentions |-> realtimeMentions, dashboardStats |-> dashboardStats,
   lastUpdate |-> lastUpdate,
   tx |-> <<>>, forwarded |-> <<>>, created |-> 0, overflow |-> FALSE]

Commit(h) ==
  /\ status' = h.status
  /\ lastMessage' = h.lastMessage
  /\ wsRef' = h.wsRef
  /\ orphans' = h.orphans
  /\ reconnectAttemptsRef' = h.reconnectAttemptsRef
  /\ timeouts' = h.timeouts
  /\ reconnectTimeoutRef' = h.reconnectTimeoutRef
  /\ intervals' = h.intervals
  /\ heartbeatIntervalRef' = h.heartbeatIntervalRef
  /\ realtimeMentions' = h.realtimeMentions
  /\ dashboardStats' = h.dashboardStats
  /\ lastUpdate' = h.lastUpdate
  /\ tx' = h.tx
  /\ forwarded' = h.forwarded

\* the handler a step ran: on which socket ("current", "orphan" or "none"),
\* with which argument (close code, brand, token present), the attempt
\* counter it started from, and event.data of a message event
Event(op, w, arg) ==
  [op |-> op, w |-> w, arg |-> arg, attempts |-> reconnectAttemptsRef, raw |-> Null]

(***************************************************************************)
(* The browser's side of WebSocket, setTimeout and setInterval             *)
(***************************************************************************)
\* states of a socket that is not closed; "failing" is readyState CLOSING of a
\* socket closed before it was established, which the browser must fail
LiveStates == {"connecting", "open", "closing", "failing"}

NumOrphans(h) ==
  h.orphans["connecting"] + h.orphans["open"] + h.orphans["closing"] + h.orphans["failing"]

IsOpen(h) == h.wsRef = "open"

\* ws.send(text) on the socket wsRef.current
send(h, m) == [h EXCEPT !.tx = Append(@, m)]

\* ws.close(1000, 'Client disconnect'): a socket not yet established is failed,
\* an open one starts the closing handshake, a closing or closed one is left alone
close(st) ==
  IF st = "connecting" THEN "failing"
  ELSE IF st = "open" THEN "closing"
  ELSE st

\* the socket wsRef.current referred to is no longer referenced
release(h, st) ==
  IF st \in LiveStates
  THEN IF NumOrphans(h) >= MaxOrphans
       THEN [h EXCEPT !.overflow = TRUE]
       ELSE [h EXCEPT !.orphans[st] = @ + 1]
  ELSE h

\* new WebSocket(wsUrl), assigned to wsRef.current
NewWebSocket(h) ==
  [release(h, h.wsRef) EXCEPT !.wsRef = "connecting", !.created = @ + 1]

\* setTimeout(() => connect(), reconnectInterval), its id kept in reconnectTimeoutRef
setTimeout(h) ==
  IF h.timeouts >= MaxTimers
  THEN [h EXCEPT !.overflow = TRUE]
  ELSE [h EXCEPT !.timeouts = @ + 1, !.reconnectTimeoutRef = "pending"]

\* clearTimeout(reconnectTimeoutRef.current): no effect on a timer that fired
clearTimeout(h) ==
  IF h.reconnectTimeoutRef = "pending" THEN [h EXCEPT !.timeouts = @ - 1] ELSE h

\* setInterval(() => sendMessage({type: 'ping'}), 30000), its id kept in heartbeatIntervalRef
setInterval(h) ==
  IF h.intervals >= MaxIntervals
  THEN [h EXCEPT !.overflow = TRUE]
  ELSE [h EXCEPT !.intervals = @ + 1, !.heartbeatIntervalRef = "active"]

\* clearInterval(heartbeatIntervalRef.current)
clearInterval(h) ==
  IF h.heartbeatIntervalRef = "active" THEN [h EXCEPT !.intervals = @ - 1] ELSE h

(***************************************************************************)
(* useWebSocket                                                            *)
(***************************************************************************)
sendMessage(h, m) ==
  IF IsOpen(h) THEN send(h, m) ELSE h

subscribeToBrand(h, brandId) == sendMessage(h, Subscribe(brandId))

unsubscribeFromBrand(h, brandId) == sendMessage(h, Unsubscribe(brandId))

startHeartbeat(h) ==
  LET h1 == IF h.heartbeatIntervalRef # "null" THEN clearInterval(h) ELSE h
  IN setInterval(h1)

stopHeartbeat(h) ==
  IF h.heartbeatIntervalRef # "null"
  THEN [clearInterval(h) EXCEPT !.heartbeatIntervalRef = "null"]
  ELSE h

\* connect() that starts a fresh series of attempts
connect_resetsCounter(h, tok, urlOk) ==
  IF ~tok THEN [h EXCEPT !.status = ERROR]
  ELSE IF IsOpen(h) THEN h
  ELSE IF ~urlOk THEN [h EXCEPT !.status = ERROR]
  ELSE NewWebSocket([h EXCEPT !.status = CONNECTING, !.reconnectAttemptsRef = 0])

\* connect() without the check of the token
connect_tokenIgnored(h, tok, urlOk) ==
  IF IsOpen(h) THEN h
  ELSE IF ~urlOk THEN [h EXCEPT !.status = ERROR]
  ELSE NewWebSocket([h EXCEPT !.status = CONNECTING])

\* connect(): tok is tokenManager.get() # null, urlOk is whether the WebSocket
\* constructor accepts the URL (it throws otherwise, into the catch)
connect(h, tok, urlOk) ==
  IF ~tok THEN [h EXCEPT !.status = ERROR]
  ELSE IF IsOpen(h) THEN h
  ELSE IF ~urlOk THEN [h EXCEPT !.status = ERROR]
  ELSE NewWebSocket([h EXCEPT !.status = CONNECTING])

\* ws.onopen that keeps the attempt counter
onopen_counterKept(h) ==
  startHeartbeat([h EXCEPT !.status = CONNECTED])

\* ws.onopen
onopen(h) ==
  startHeartbeat([h EXCEPT !.status = CONNECTED, !.reconnectAttemptsRef = 0])

\* ws.onclose that reports every close it does not retry as an error
onclose_errorUnlessRetry(h, code) ==
  LET h1 == stopHeartbeat([h EXCEPT !.status = DISCONNECTED]) IN
  IF code # NormalClosure /\ h1.reconnectAttemptsRef < maxReconnectAttempts
  THEN setTimeout([h1 EXCEPT !.status = RECONNECTING, !.reconnectAttemptsRef = @ + 1])
  ELSE [h1 EXCEPT !.status = ERROR]

\* ws.onclose that allows one attempt more
onclose_oneMore(h, code) ==
  LET h1 == stopHeartbeat([h EXCEPT !.status = DISCONNECTED]) IN
  IF code # NormalClosure /\ h1.reconnectAttemptsRef <= maxReconnectAttempts
  THEN setTimeout([h1 EXCEPT !.status = RECONNECTING, !.reconnectAttemptsRef = @ + 1])
  ELSE IF h1.reconnectAttemptsRef >= maxReconnectAttempts
  THEN [h1 EXCEPT !.status = ERROR]
  ELSE h1

\* ws.onclose that does not look at the close code
onclose_anyCode(h, code) ==
  LET h1 == stopHeartbeat([h EXCEPT !.status = DISCONNECTED]) IN
  IF h1.reconnectAttemptsRef < maxReconnectAttempts
  THEN setTimeout([h1 EXCEPT !.status = RECONNECTING, !.reconnectAttemptsRef = @ + 1])
  ELSE IF h1.reconnectAttemptsRef >= maxReconnectAttempts
  THEN [h1 EXCEPT !.status = ERROR]
  ELSE h1

\* ws.onclose, event.code = code
onclose(h, code) ==
  LET h1 == stopHeartbeat([h EXCEPT !.status = DISCONNECTED]) IN
  IF code # NormalClosure /\ h1.reconnectAttemptsRef < maxReconnectAttempts
  THEN setTimeout([h1 EXCEPT !.status = RECONNECTING, !.reconnectAttemptsRef = @ + 1])
  ELSE IF h1.reconnectAttemptsRef >= maxReconnectAttempts
  THEN [h1 EXCEPT !.status = ERROR]
  ELSE h1

\* ws.onerror
onerror(h) == [h EXCEPT !.status = ERROR]

disconnect(h) ==
  LET h1 == IF h.reconnectTimeoutRef # "null"
            THEN [clearTimeout(h) EXCEPT !.reconnectTimeoutRef = "null"]
            ELSE h
      h2 == stopHeartbeat(h1)
      h3 == IF h2.wsRef # "null"
            THEN [release(h2, close(h2.wsRef)) EXCEPT !.wsRef = "null"]
            ELSE h2
  IN [h3 EXCEPT !.status = DISCONNECTED, !.reconnectAttemptsRef = 0]

(***************************************************************************)
(* WebSocketProvider: the store behind onMessage                           *)
(***************************************************************************)
\* Array.prototype.slice(0, n)
slice(xs, n) == SubSeq(xs, 1, IF Len(xs) < n THEN Len(xs) ELSE n)

\* new Date().toISOString(), abstracted to the update that read the clock
Now(cause) == cause

\* handleMessage that shows a notification in the feed
handleMessage_notificationInFeed(h, m) ==
  CASE m.type = "new_mention" ->
         IF Truthy(m.data)
         THEN [h EXCEPT !.realtimeMentions = slice(<<m.data>> \o @, Capacity),
                        !.lastUpdate = Now("new_mention")]
         ELSE h
    [] m.type = "stats_update" ->
         IF Truthy(m.data)
         THEN [h EXCEPT !.dashboardStats = m.data,
                        !.lastUpdate = Now("stats_update")]
         ELSE h
    [] m.type = "notification" ->
         IF Truthy(m.data)
         THEN [h EXCEPT !.realtimeMentions = slice(<<m.data>> \o @, Capacity)]
         ELSE h
    [] OTHER -> h

\* handleMessage that merges a stats_update into the previous summary
handleMessage_merge(h, m) ==
  CASE m.type = "new_mention" ->
         IF Truthy(m.data)
         THEN [h EXCEPT !.realtimeMentions = slice(<<m.data>> \o @, Capacity),
                        !.lastUpdate = Now("new_mention")]
         ELSE h
    [] m.type = "stats_update" ->
         IF Truthy(m.data)
         THEN [h EXCEPT !.dashboardStats =
                          IF @ = Null THEN m.data
                          ELSE [m.data EXCEPT !.new_today = h.dashboardStats.new_today],
                        !.lastUpdate = Now("stats_update")]
         ELSE h
    [] OTHER -> h

\* handleMessage that inserts a new mention at the end
handleMessage_atEnd(h, m) ==
  CASE m.type = "new_mention" ->
         IF Truthy(m.data)
         THEN [h EXCEPT !.realtimeMentions = slice(@ \o <<m.data>>, Capacity),
                        !.lastUpdate = Now("new_mention")]
         ELSE h
    [] m.type = "stats_update" ->
         IF Truthy(m.data)
         THEN [h EXCEPT !.dashboardStats = m.data,
                        !.lastUpdate = Now("stats_update")]
         ELSE h
    [] OTHER -> h

\* handleMessage that applies a sentiment_update to the mentions it is about
handleMessage_sentimentApplied(h, m) ==
  CASE m.type = "new_mention" ->
         IF Truthy(m.data)
         THEN [h EXCEPT !.realtimeMentions = slice(<<m.data>> \o @, Capacity),
                        !.lastUpdate = Now("new_mention")]
         ELSE h
    [] m.type = "sentiment_update" ->
         IF Truthy(m.data)
         THEN [h EXCEPT !.realtimeMentions =
                          [i \in 1..Len(@) |-> IF @[i].id = m.data.id THEN m.data ELSE @[i]],
                        !.lastUpdate = Now("sentiment_update")]
         ELSE h
    [] m.type = "stats_update" ->
         IF Truthy(m.data)
         THEN [h EXCEPT !.dashboardStats = m.data,
                        !.lastUpdate = Now("stats_update")]
         ELSE h
    [] OTHER -> h

\* handleMessage that skips an entity the buffer already holds
handleMessage_dedup(h, m) ==
  CASE m.type = "new_mention" ->
         IF Truthy(m.data) /\ Count(h.realtimeMentions, m.data) = 0
         THEN [h EXCEPT !.realtimeMentions = slice(<<m.data>> \o @, Capacity),
                        !.lastUpdate = Now("new_mention")]
         ELSE h
    [] m.type = "stats_update" ->
         IF Truthy(m.data)
         THEN [h EXCEPT !.dashboardStats = m.data,
                        !.lastUpdate = Now("stats_update")]
         ELSE h
    [] OTHER -> h

\* handleMessage that trims the buffer before it inserts
handleMessage_trimFirst(h, m) ==
  CASE m.type = "new_mention" ->
         IF Truthy(m.data)
         THEN [h EXCEPT !.realtimeMentions = <<m.data>> \o slice(@, Capacity),
                        !.lastUpdate = Now("new_mention")]
         ELSE h
    [] m.type = "stats_update" ->
         IF Truthy(m.data)
         THEN [h EXCEPT !.dashboardStats = m.data,
                        !.lastUpdate = Now("stats_update")]
         ELSE h
    [] OTHER -> h

handleMessage(h, m) ==
  CASE m.type = "new_mention" ->
         IF Truthy(m.data)
         THEN [h EXCEPT !.realtimeMentions = slice(<<m.data>> \o @, Capacity),
                        !.lastUpdate = Now("new_mention")]
         ELSE h
    [] m.type = "sentiment_update" ->
         IF Truthy(m.data)
         THEN [h EXCEPT !.lastUpdate = Now("sentiment_update")]
         ELSE h
    [] m.type = "stats_update" ->
         IF Truthy(m.data)
         THEN [h EXCEPT !.dashboardStats = m.data,
                        !.lastUpdate = Now("stats_update")]
         ELSE h
    [] m.type = "notification" -> h
    [] m.type = "error" -> h
    [] OTHER -> h

\* clearMentions that resets the summary as well
clearMentions_resetsStats(h) ==
  [h EXCEPT !.realtimeMentions = <<>>, !.dashboardStats = Null]

clearMentions(h) == [h EXCEPT !.realtimeMentions = <<>>]

\* loadInitialData after await api.getRecentMentions(undefined, 50)
loadMentions(h, mentions) ==
  IF Len(mentions) > 0 THEN [h EXCEPT !.realtimeMentions = mentions] ELSE h

\* loadInitialData after await api.getSentimentStats(undefined, 30)
loadStats(h, stats) ==
  [h EXCEPT !.dashboardStats =
              [k |-> "stats",
               total_mentions |-> stats.total_mentions,
               positive_count |-> stats.positive_count,
               neutral_count |-> stats.neutral_count,
               negative_count |-> stats.negative_count,
               new_today |-> 0],
            !.lastUpdate = Now("load")]

\* onMessage?.(message), with the provider's handleMessage registered
onMessage(h, m) == handleMessage([h EXCEPT !.forwarded = Append(@, m)], m)

\* ws.onmessage without the try: a payload that does not parse is an error
onmessage_parseFails(h, raw) ==
  IF ~raw.json THEN [h EXCEPT !.status = ERROR]
  ELSE LET message == raw.msg
           h1 == [h EXCEPT !.lastMessage = message]
       IN IF message = Null THEN h1
          ELSE IF message.type = "connection" /\ message.status = "connected" THEN h1
          ELSE IF message.type = "pong" THEN h1
          ELSE onMessage(h1, message)

\* ws.onmessage that consumes only the connection acknowledgement
onmessage_pongForwarded(h, raw) ==
  IF ~raw.json THEN h
  ELSE LET message == raw.msg
           h1 == [h EXCEPT !.lastMessage = message]
       IN IF message = Null THEN h1
          ELSE IF message.type = "connection" /\ message.status = "connected" THEN h1
          ELSE onMessage(h1, message)

\* ws.onmessage, event.data = raw
onmessage(h, raw) ==
  IF ~raw.json THEN h
  ELSE LET message == raw.msg
           h1 == [h EXCEPT !.lastMessage = message]
       IN IF message = Null THEN h1
          ELSE IF message.type = "connection" /\ message.status = "connected" THEN h1
          ELSE IF message.type = "pong" THEN h1
          ELSE onMessage(h1, message)

(***************************************************************************)
(* What the server may send                                                *)
(***************************************************************************)
Stats(t, p) ==
  [k |-> "stats", total_mentions |-> t, positive_count |-> p,
   neutral_count |-> 0, negative_count |-> t - p, new_today |-> 1]
StatsPayloads == {Stats(1, 0), Stats(2, 1)}

InboundMessages ==
  {Message("connection", "connected", NoData), Message("connection", "", NoData),
   Message("pong", "", NoData),
   Message("new_mention", "", Mention(nMentions + 1)), Message("new_mention", "", NoData),
   Message("sentiment_update", "", Sentiment(1)), Message("sentiment_update", "", NoData),
   Message("stats_update", "", NoData),
   Message("notification", "", Mention(1)), Message("error", "", NoData),
   Message("mystery", "", NoData)}
  \cup {Message("stats_update", "", s) : s \in StatsPayloads}

Payloads == {Garbage, Json(Null)} \cup {Json(m) : m \in InboundMessages}

\* the server delivers the last new_mention once more
Redelivered ==
  IF nMentions > 0 /\ Count(realtimeMentions, Mention(nMentions)) < MaxCopies
  THEN {Json(Message("new_mention", "", Mention(nMentions)))}
  ELSE {}

\* the payloads of the connection specification: one that does not parse, one
\* the hook consumes, one it forwards to the store
ConnPayloads ==
  {Garbage, Json(Message("connection", "connected", NoData)),
   Json(Message("notification", "", Mention(1)))}

\* the payloads of the buffer specification
FillPayloads == {Json(Message("new_mention", "", Mention(nMentions + 1)))}

\* responses of GET /mentions?limit=50: the most recent mentions, at most 50
RestMentions(n) == [i \in 1..n |-> Mention(0 - i)]
RestResponses == {RestMentions(0), RestMentions(2), RestMentions(Capacity)}

\* close codes a server sends in its Close frame; 1006 is the browser's code
\* for a connection that failed
ServerCloseCodes == {1000, 1001}
FailureCloseCodes == {1006}

(***************************************************************************)
(* Initial state: the first render, before any effect has run              *)
(***************************************************************************)
Init ==
  /\ phase = "init"
  /\ status = DISCONNECTED
  /\ lastMessage = Null
  /\ wsRef = "null"
  /\ orphans = [st \in LiveStates |-> 0]
  /\ pendingClose = "none"
  /\ reconnectAttemptsRef = 0
  /\ timeouts = 0
  /\ reconnectTimeoutRef = "null"
  /\ intervals = 0
  /\ heartbeatIntervalRef = "null"
  /\ realtimeMentions = <<>>
  /\ dashboardStats = Null
  /\ lastUpdate = "null"
  /\ loadPc = "idle"
  /\ nMentions = 0
  /\ tx = <<>>
  /\ forwarded = <<>>
  /\ subscriptions = {}
  /\ queued = {}
  /\ abnormalCloses = 0
  /\ run = 0
  /\ autoAttempts = 0
  /\ userClosed = FALSE
  /\ ev = [op |-> "init", w |-> "none", arg |-> 0, attempts |-> 0, raw |-> Null]

storeHist == <<nMentions, run>>
connHist == <<subscriptions, queued, abnormalCloses, autoAttempts, userClosed>>

\* a step: h is the state its handler leaves, e names the handler
Step(h, e) ==
  /\ ~h.overflow
  /\ Commit(h)
  /\ ev' = e

\* the hook's functions are called by mounted components, between tasks
Callable == phase \in {"init", "mounted"} /\ pendingClose = "none"

\* timers and transport events are tasks of the event loop: none runs before
\* the effects of the first commit have run, or between an error event and
\* the close event of the same task
Idle == phase # "init" /\ pendingClose = "none"

Flag(b) == IF b THEN 1 ELSE 0

\* history counters stop at the bound
Saturate(n, max) == IF n < max THEN n + 1 ELSE max

(***************************************************************************)
(* The effects and the hook's public functions                             *)
(***************************************************************************)
\* mount: the hook's effect (if (autoConnect) connect()), then the provider's
\* effect (loadInitialData(), up to its first await)
Mount(autoConnect, tok, urlOk) ==
  /\ phase = "init" /\ pendingClose = "none"
  /\ phase' = "mounted"
  /\ loadPc' = "mentions"
  /\ Step(IF autoConnect THEN connect(Cur, tok, urlOk) ELSE Cur,
          Event(IF autoConnect THEN "mount" ELSE "mountIdle", "none", Flag(tok)))
  /\ userClosed' = IF autoConnect THEN FALSE ELSE userClosed
  /\ UNCHANGED <<pendingClose, storeHist, subscriptions, queued, abnormalCloses, autoAttempts>>

\* unmount: the cleanup of the hook's effect, disconnect()
Unmount ==
  /\ phase = "mounted" /\ pendingClose = "none"
  /\ phase' = "unmounted"
  /\ Step(disconnect(Cur), Event("unmount", "none", 0))
  /\ abnormalCloses' = 0
  /\ autoAttempts' = 0
  /\ userClosed' = TRUE
  /\ UNCHANGED <<pendingClose, loadPc, storeHist, subscriptions, queued>>

Connect(tok, urlOk) ==
  /\ Callable
  /\ Step(connect(Cur, tok, urlOk), Event("connect", "none", Flag(tok)))
  /\ userClosed' = FALSE
  /\ UNCHANGED <<phase, pendingClose, loadPc, storeHist, subscriptions, queued, abnormalCloses, autoAttempts>>

Disconnect ==
  /\ Callable
  /\ Step(disconnect(Cur), Event("disconnect", "none", 0))
  /\ abnormalCloses' = 0
  /\ autoAttempts' = 0
  /\ userClosed' = TRUE
  /\ UNCHANGED <<phase, pendingClose, loadPc, storeHist, subscriptions, queued>>

SendMessage(m) ==
  /\ Callable
  /\ Step(sendMessage(Cur, m), Event("send", "none", 0))
  /\ UNCHANGED <<phase, pendingClose, loadPc, storeHist, connHist>>

SubscribeToBrand(brandId) ==
  /\ Callable
  /\ Step(subscribeToBrand(Cur, brandId), Event("subscribe", "none", brandId))
  /\ subscriptions' = subscriptions \cup {brandId}
  /\ queued' = IF status # CONNECTED THEN queued \cup {brandId} ELSE queued
  /\ UNCHANGED <<phase, pendingClose, loadPc, storeHist, abnormalCloses, autoAttempts, userClosed>>

UnsubscribeFromBrand(brandId) ==
  /\ Callable
  /\ Step(unsubscribeFromBrand(Cur, brandId), Event("unsubscribe", "none", brandId))
  /\ subscriptions' = subscriptions \ {brandId}
  /\ queued' = queued \ {brandId}
  /\ UNCHANGED <<phase, pendingClose, loadPc, storeHist, abnormalCloses, autoAttempts, userClosed>>

(***************************************************************************)
(* Timers                                                                  *)
(***************************************************************************)
\* the callback of a setTimeout of ws.onclose: connect().  The timer is the one
\* reconnectTimeoutRef holds (held = TRUE) or one whose id was overwritten
ReconnectTimer(held, tok, urlOk) ==
  /\ Idle
  /\ IF held THEN reconnectTimeoutRef = "pending"
             ELSE timeouts - Flag(reconnectTimeoutRef = "pending") > 0
  /\ LET h == connect([Cur EXCEPT !.timeouts = @ - 1,
                                   !.reconnectTimeoutRef = IF held THEN "fired" ELSE @],
                       tok, urlOk)
     IN /\ Step(h, Event("timer", "none", Flag(tok)))
        /\ autoAttempts' = IF h.created > 0
                           THEN Saturate(autoAttempts, MaxCount)
                           ELSE autoAttempts
  /\ UNCHANGED <<phase, pendingClose, loadPc, storeHist, subscriptions, queued, abnormalCloses,
                 userClosed>>

\* the callback of the setInterval of startHeartbeat: sendMessage({ type: 'ping' })
HeartbeatTick ==
  /\ Idle
  /\ intervals > 0
  /\ Step(sendMessage(Cur, Ping), Event("heartbeat", "none", 0))
  /\ UNCHANGED <<phase, pendingClose, loadPc, storeHist, connHist>>

(***************************************************************************)
(* Transport events: the browser changes readyState and fires the handler  *)
(* in one task.  which is "current" (the socket wsRef.current refers to)   *)
(* or "orphan"; st is the state the socket is in                           *)
(***************************************************************************)
Has(which, st) ==
  IF which = "current" THEN wsRef = st ELSE orphans[st] > 0

\* the socket moves from state st to state new
setState(h, which, st, new) ==
  IF which = "current" THEN [h EXCEPT !.wsRef = new]
  ELSE IF new \in LiveStates
  THEN [h EXCEPT !.orphans[st] = @ - 1, !.orphans[new] = @ + 1]
  ELSE [h EXCEPT !.orphans[st] = @ - 1]

IsNewEntity(raw) ==
  raw.json /\ raw.msg # Null /\ raw.msg.type = "new_mention" /\ Truthy(raw.msg.data)

\* ... whose entity no earlier message carried
IsFresh(raw) == IsNewEntity(raw) /\ raw.msg.data = Mention(nMentions + 1)

TransportOpen(which) ==
  /\ Idle
  /\ Has(which, "connecting")
  /\ Step(onopen(setState(Cur, which, "connecting", "open")), Event("open", which, 0))
  /\ abnormalCloses' = 0
  /\ autoAttempts' = 0
  /\ queued' = IF which = "current" THEN {} ELSE queued
  /\ UNCHANGED <<phase, pendingClose, loadPc, storeHist, subscriptions, userClosed>>

TransportMessage(which, st, raw, cap) ==
  /\ Idle
  /\ st \in {"open", "closing"} /\ Has(which, st)
  /\ IsFresh(raw) => nMentions < cap
  /\ Step(onmessage(Cur, raw), [Event("message", which, 0) EXCEPT !.raw = raw])
  /\ nMentions' = IF IsFresh(raw) THEN nMentions + 1 ELSE nMentions
  /\ run' = IF IsFresh(raw) THEN run + 1 ELSE run
  /\ UNCHANGED <<phase, pendingClose, loadPc, connHist>>

\* the connection failed: readyState becomes CLOSED, the error event fires,
\* and the close event follows in the same task
TransportError(which, st) ==
  /\ Idle
  /\ st \in LiveStates /\ Has(which, st)
  /\ Step(onerror(setState(Cur, which, st, "closed")), Event("error", which, 0))
  /\ pendingClose' = which
  /\ UNCHANGED <<phase, loadPc, storeHist, connHist>>

\* the close event of a failed connection
TransportFailed(code) ==
  /\ pendingClose # "none"
  /\ Step(onclose(Cur, code), Event("close", pendingClose, code))
  /\ pendingClose' = "none"
  /\ abnormalCloses' = IF code # NormalClosure
                       THEN Saturate(abnormalCloses, MaxCount)
                       ELSE abnormalCloses
  /\ UNCHANGED <<phase, loadPc, storeHist, subscriptions, queued, autoAttempts, userClosed>>

\* the close event of a closing handshake: started by the server on an open
\* socket, or by ws.close(1000) and answered with the same code
TransportClose(which, st, code) ==
  /\ Idle
  /\ \/ st = "open" /\ code \in ServerCloseCodes
     \/ st = "closing" /\ code = NormalClosure
  /\ Has(which, st)
  /\ Step(onclose(setState(Cur, which, st, "closed"), code), Event("close", which, code))
  /\ abnormalCloses' = IF code # NormalClosure
                       THEN Saturate(abnormalCloses, MaxCount)
                       ELSE abnormalCloses
  /\ UNCHANGED <<phase, pendingClose, loadPc, storeHist, subscriptions, queued, autoAttempts, userClosed>>

(***************************************************************************)
(* The provider's own operations                                           *)
(***************************************************************************)
ClearMentions ==
  /\ Callable
  /\ Step(clearMentions(Cur), Event("clear", "none", 0))
  /\ run' = 0
  /\ UNCHANGED <<phase, pendingClose, loadPc, nMentions, connHist>>

\* api.getRecentMentions resolves
LoadMentions(mentions) ==
  /\ Idle
  /\ loadPc = "mentions"
  /\ loadPc' = "stats"
  /\ Step(loadMentions(Cur, mentions), Event("loadMentions", "none", Len(mentions)))
  /\ run' = IF Len(mentions) > 0 THEN 0 ELSE run
  /\ UNCHANGED <<phase, pendingClose, nMentions, connHist>>

\* api.getSentimentStats resolves
LoadStats(stats) ==
  /\ Idle
  /\ loadPc = "stats"
  /\ loadPc' = "done"
  /\ Step(loadStats(Cur, stats), Event("loadStats", "none", 0))
  /\ UNCHANGED <<phase, pendingClose, storeHist, connHist>>

\* either request rejects: the catch logs and the load ends
LoadFailed ==
  /\ Idle
  /\ loadPc \in {"mentions", "stats"}
  /\ loadPc' = "done"
  /\ Step(Cur, Event("loadFailed", "none", 0))
  /\ UNCHANGED <<phase, pendingClose, storeHist, connHist>>

(***************************************************************************)
(* Specifications                                                          *)
(***************************************************************************)
OutboundMessages == {[type |-> "custom", brand_id |-> 0]}
Which == {"current", "orphan"}

\* the connection: every operation of the hook and every transport and timer event
Next ==
  \/ \E autoConnect, tok, urlOk \in BOOLEAN : Mount(autoConnect, tok, urlOk)
  \/ Unmount
  \/ \E tok, urlOk \in BOOLEAN : Connect(tok, urlOk)
  \/ Disconnect
  \/ \E m \in OutboundMessages : SendMessage(m)
  \/ \E held, tok, urlOk \in BOOLEAN : ReconnectTimer(held, tok, urlOk)
  \/ HeartbeatTick
  \/ \E which \in Which : TransportOpen(which)
  \/ \E which \in Which, st \in LiveStates, raw \in ConnPayloads :
       TransportMessage(which, st, raw, MaxMentions)
  \/ \E which \in Which, st \in LiveStates : TransportError(which, st)
  \/ \E code \in FailureCloseCodes : TransportFailed(code)
  \/ \E which \in Which, st \in LiveStates, code \in ServerCloseCodes :
       TransportClose(which, st, code)

Spec == Init /\ [][Next]_vars

\* the connection with the brand subscriptions of the components that use it
SubNext ==
  \/ Next
  \/ \E b \in Topics : SubscribeToBrand(b)
  \/ \E b \in Topics : UnsubscribeFromBrand(b)

SubSpec == Init /\ [][SubNext]_vars

\* the buffer: a session that connects, loads and receives new mentions
FillNext ==
  \/ Mount(TRUE, TRUE, TRUE)
  \/ TransportOpen("current")
  \/ \E raw \in FillPayloads : TransportMessage("current", "open", raw, MaxMentions)
  \/ ClearMentions
  \/ \E mentions \in RestResponses : LoadMentions(mentions)
  \/ \E stats \in StatsPayloads : LoadStats(stats)
  \/ LoadFailed

FillSpec == Init /\ [][FillNext]_vars

\* the router and the store: a connected session that receives every kind of
\* payload while the initial load runs
RouteNext ==
  \/ Mount(TRUE, TRUE, TRUE)
  \/ TransportOpen("current")
  \/ \E raw \in Payloads : TransportMessage("current", "open", raw, MaxRouted)
  \/ ClearMentions
  \/ \E mentions \in RestResponses : LoadMentions(mentions)
  \/ \E stats \in StatsPayloads : LoadStats(stats)
  \/ LoadFailed

RouteSpec == Init /\ [][RouteNext]_vars

\* the buffer under redelivery: the server may send a new_mention again
RedeliverNext ==
  \/ Mount(TRUE, TRUE, TRUE)
  \/ TransportOpen("current")
  \/ \E raw \in FillPayloads \cup Redelivered :
       TransportMessage("current", "open", raw, MaxRouted)
  \/ ClearMentions
  \/ \E mentions \in RestResponses : LoadMentions(mentions)
  \/ \E stats \in StatsPayloads : LoadStats(stats)
  \/ LoadFailed

RedeliverSpec == Init /\ [][RedeliverNext]_vars

\* the reconnect loop: a token is always available and the server accepts
\* every connection (a connecting socket is never failed), the application may
\* call connect() and disconnect() at any time
Accepted == {"open", "closing", "failing"}

ReconnectFires == \E held \in BOOLEAN : ReconnectTimer(held, TRUE, TRUE)
OpenDelivered == \E which \in Which : TransportOpen(which)
CloseDelivered == \E code \in FailureCloseCodes : TransportFailed(code)

LiveNext ==
  \/ \E autoConnect \in BOOLEAN : Mount(autoConnect, TRUE, TRUE)
  \/ Unmount
  \/ Connect(TRUE, TRUE)
  \/ Disconnect
  \/ ReconnectFires
  \/ HeartbeatTick
  \/ OpenDelivered
  \/ \E which \in Which, st \in Accepted : TransportError(which, st)
  \/ CloseDelivered
  \/ \E which \in Which, st \in LiveStates, code \in ServerCloseCodes :
       TransportClose(which, st, code)

\* a pending timer fires and a transport event the browser has queued is
\* delivered
LiveSpec ==
  /\ Init /\ [][LiveNext]_vars
  /\ WF_vars(ReconnectFires)
  /\ WF_vars(OpenDelivered)
  /\ WF_vars(CloseDelivered)

(***************************************************************************)
(* Properties                                                              *)
(***************************************************************************)
\* the steps that call connect(): the public function, the reconnect timer,
\* the mount effect with autoConnect
ConnectCalled(e) == e.op \in {"connect", "timer", "mount"}

\* sockets that are connecting or open
LiveTransports ==
  Flag(wsRef \in {"connecting", "open"}) + orphans["connecting"] + orphans["open"]

\* C1: every call of connect() made while tokenManager.get() returns no token
\* leaves the status ERROR and constructs no WebSocket: the socket
\* wsRef.current refers to and the other sockets are as before the call.
C1_NoTokenNoSocket ==
  [][(ConnectCalled(ev') /\ ev'.arg = 0)
       => (status' = ERROR /\ wsRef' = wsRef /\ orphans' = orphans)]_vars

\* connect() was called without a token while a socket was connecting
C1_Witness ==
  ev.op = "connect" /\ ev.arg = 0 /\ status = ERROR /\ wsRef = "connecting"

\* C2: in every reachable state at most one socket is connecting or open.
C2_AtMostOneLive == LiveTransports <= 1

\* C3: once disconnect() has been called, and until connect() is called again,
\* the status is DISCONNECTED, no socket has been created (wsRef.current is
\* null) and no reconnect is scheduled.
C3_DisconnectedUntilConnect ==
  userClosed => (status = DISCONNECTED /\ wsRef = "null" /\ timeouts = 0)

\* a close event with a code other than 1000
AbnormalClose(e) == e.op = "close" /\ e.arg # NormalClosure

\* C4 as stated: after the 5th consecutive abnormal close with no open between
\* them the status is ERROR and no reconnect is pending.
C4_FailedAfterFifth ==
  (AbnormalClose(ev) /\ abnormalCloses = maxReconnectAttempts)
    => (status = ERROR /\ timeouts = 0)

\* C4 amended: the n-th consecutive abnormal close with no open and no
\* disconnect() between them, n <= 5, leaves the status RECONNECTING, the
\* counter n and one more reconnect scheduled; the 6th and every later one
\* leaves the status ERROR, the counter 5 and schedules no reconnect.
C4_FailedAfterSixth ==
  [][AbnormalClose(ev')
       => IF abnormalCloses' <= maxReconnectAttempts
          THEN /\ status' = RECONNECTING
               /\ reconnectAttemptsRef' = abnormalCloses'
               /\ timeouts' = timeouts + 1
               /\ reconnectTimeoutRef' = "pending"
          ELSE /\ status' = ERROR
               /\ reconnectAttemptsRef' = maxReconnectAttempts
               /\ timeouts' = timeouts
               /\ reconnectTimeoutRef' = reconnectTimeoutRef]_vars

\* the 6th consecutive abnormal close has left the status ERROR
C4_Witness ==
  /\ AbnormalClose(ev) /\ abnormalCloses = maxReconnectAttempts + 1
  /\ status = ERROR /\ reconnectAttemptsRef = maxReconnectAttempts

\* C5: a close event schedules a reconnect only when it finds the attempt
\* counter below maxReconnectAttempts; the counter is always between 0 and
\* maxReconnectAttempts; and at most maxReconnectAttempts connect attempts
\* have been made by reconnect timers since the counter was last reset.
C5_BoundedAttempts ==
  [][/\ (ev'.op = "close" /\ timeouts' > timeouts)
          => reconnectAttemptsRef < maxReconnectAttempts
     /\ reconnectAttemptsRef' \in 0..maxReconnectAttempts
     /\ autoAttempts' <= maxReconnectAttempts]_vars

\* C6: in the state an open event leaves, the attempt counter is 0 and the
\* status is CONNECTED, whatever the counter was before the event.
C6_OpenResets ==
  ev.op = "open" => (reconnectAttemptsRef = 0 /\ status = CONNECTED)

\* an open event found the counter above 0 and reset it
C6_Witness ==
  ev.op = "open" /\ ev.attempts > 0 /\ reconnectAttemptsRef = 0 /\ status = CONNECTED

\* C7: a close event with a code other than 1000 that finds the counter below
\* maxReconnectAttempts sets the status RECONNECTING, adds exactly one to the
\* counter and schedules exactly one connect(); every other close event (code
\* 1000, or the counter at maxReconnectAttempts) schedules nothing, leaves the
\* counter as it was and does not set RECONNECTING.
C7_CloseSchedulesIff ==
  [][ev'.op = "close"
       => IF ev'.arg # NormalClosure /\ reconnectAttemptsRef < maxReconnectAttempts
          THEN /\ status' = RECONNECTING
               /\ reconnectAttemptsRef' = reconnectAttemptsRef + 1
               /\ timeouts' = timeouts + 1
               /\ reconnectTimeoutRef' = "pending"
          ELSE /\ status' \in {DISCONNECTED, ERROR}
               /\ reconnectAttemptsRef' = reconnectAttemptsRef
               /\ timeouts' = timeouts
               /\ reconnectTimeoutRef' = reconnectTimeoutRef]_vars

\* a close with code 1000 found retries left and scheduled nothing, while a
\* reconnect scheduled by an earlier abnormal close is still pending
C7_Witness ==
  /\ ev.op = "close" /\ ev.arg = NormalClosure
  /\ ev.attempts \in 1..(maxReconnectAttempts - 1)
  /\ reconnectAttemptsRef = ev.attempts
  /\ status = DISCONNECTED /\ timeouts = 1

\* C8: when the socket wsRef.current refers to opens, the open step transmits
\* exactly one Subscribe for every brand that was subscribed while the status
\* was not CONNECTED and has not been unsubscribed since.
C8_QueuedSubscribeSent ==
  [][(ev'.op = "open" /\ ev'.w = "current")
       => \A t \in queued : Count(tx', Subscribe(t)) = 1]_vars

\* C9: in the state an open event of the socket wsRef.current refers to
\* leaves, the step has transmitted exactly one Subscribe for every brand
\* subscribed and not unsubscribed.
C9_ReplayOnEveryOpen ==
  (ev.op = "open" /\ ev.w = "current")
    => \A t \in subscriptions : Count(tx, Subscribe(t)) = 1

\* C10: after more than Capacity consecutive new_mention messages, with no
\* other write of the buffer between them, the buffer holds exactly Capacity
\* entities: the last Capacity inserted, newest first.
C10_KeepsNewest ==
  run > Capacity
    => /\ Len(realtimeMentions) = Capacity
       /\ \A i \in 1..Capacity : realtimeMentions[i] = Mention(nMentions - i + 1)

\* Capacity + 1 new mentions were inserted into a buffer that the initial load
\* had filled, and the buffer holds none of the loaded ones
C10_Witness ==
  /\ run = Capacity + 1 /\ ev.op = "message" /\ loadPc \in {"stats", "done"}
  /\ Len(realtimeMentions) = Capacity
  /\ realtimeMentions[1] = Mention(nMentions)
  /\ realtimeMentions[Capacity] = Mention(nMentions - Capacity + 1)
Decoded(e) == e.op = "message" /\ e.raw.json /\ e.raw.msg # Null

\* ... into a message of the given type
Received(e, type) == Decoded(e) /\ e.raw.msg.type = type

\* C12: a stats_update message with data s leaves dashboardStats equal to s,
\* every field of it, and leaves the buffer as it was.
C12_StatsReplaced ==
  [][(Received(ev', "stats_update") /\ Truthy(ev'.raw.msg.data))
       => /\ dashboardStats' = ev'.raw.msg.data
          /\ realtimeMentions' = realtimeMentions]_vars

\* a stats_update has replaced the summary the initial load had stored (whose
\* new_today is 0) while the buffer holds mentions
C12_Witness ==
  /\ Received(ev, "stats_update") /\ loadPc = "done"
  /\ dashboardStats = Stats(2, 1) /\ dashboardStats.new_today = 1
  /\ Len(realtimeMentions) > 0
\* the types ws.onmessage and handleMessage have a case for that writes state
\* or consumes the message
HandledTypes ==
  {"connection", "pong", "new_mention", "sentiment_update", "stats_update"}

\* C13: a message of type notification, error or of a type no case names
\* leaves the buffer, dashboardStats and the status as they were, and leaves
\* every socket in the state it was in.
C13_SideChannelFrame ==
  [][(Decoded(ev') /\ ev'.raw.msg.type \notin HandledTypes)
       => /\ realtimeMentions' = realtimeMentions
          /\ dashboardStats' = dashboardStats
          /\ status' = status
          /\ wsRef' = wsRef /\ orphans' = orphans]_vars

\* a message of an unknown type arrived and was passed to handleMessage while
\* the buffer and the summary held data
C13_Witness ==
  /\ Received(ev, "mystery") /\ forwarded = <<ev.raw.msg>>
  /\ Len(realtimeMentions) > 0 /\ dashboardStats # Null
  /\ status = CONNECTED /\ wsRef = "open"
\* C14 as stated: a decoded message is passed to onMessage, once, if and only
\* if its type is neither connection nor pong.
C14_ForwardedUnlessAckOrPong ==
  [][Decoded(ev')
       => forwarded' = IF ev'.raw.msg.type \in {"connection", "pong"}
                       THEN <<>>
                       ELSE <<ev'.raw.msg>>]_vars

\* the connection acknowledgement: type connection with status connected
IsAck(m) == m.type = "connection" /\ m.status = "connected"

\* C14 amended: a decoded message is passed to onMessage, once, if and only if
\* it is neither a connection message with status connected nor a pong; a
\* connection message with another status is passed on like any other.
C14_ForwardedUnlessConnectedOrPong ==
  [][Decoded(ev')
       => forwarded' = IF IsAck(ev'.raw.msg) \/ ev'.raw.msg.type = "pong"
                       THEN <<>>
                       ELSE <<ev'.raw.msg>>]_vars

\* a connection message whose status is not connected was passed to onMessage
C14_Witness ==
  /\ Received(ev, "connection") /\ ~IsAck(ev.raw.msg)
  /\ forwarded = <<ev.raw.msg>>
\* the step ran ws.onmessage on a payload that JSON.parse rejects
Undecodable(e) == e.op = "message" /\ ~e.raw.json

\* C15: a payload that JSON.parse rejects changes nothing: not the status,
\* the attempt counter, the sockets, the timers, lastMessage or the store; it
\* is not passed to onMessage and nothing is sent; and a message that arrives
\* right after it is passed to onMessage as usual.
C15_UndecodableDropped ==
  [][/\ Undecodable(ev')
          => /\ UNCHANGED <<status, reconnectAttemptsRef, wsRef, orphans, timeouts,
                            reconnectTimeoutRef, intervals, heartbeatIntervalRef,
                            lastMessage, realtimeMentions, dashboardStats, lastUpdate>>
             /\ forwarded' = <<>> /\ tx' = <<>>
     /\ (Undecodable(ev) /\ Received(ev', "notification"))
          => (forwarded' = <<ev'.raw.msg>> /\ lastMessage' = ev'.raw.msg)]_vars

\* a payload that does not parse arrived on the open socket after a message
\* that did, and left it in lastMessage
C15_Witness ==
  /\ Undecodable(ev) /\ ev.w = "current"
  /\ wsRef = "open" /\ status = CONNECTED /\ lastMessage # Null
\* what sendMessage may not change: everything but the transmitted messages
sendFrame ==
  <<status, lastMessage, wsRef, orphans, reconnectAttemptsRef, timeouts,
    reconnectTimeoutRef, intervals, heartbeatIntervalRef, realtimeMentions,
    dashboardStats, lastUpdate>>

\* C16: sendMessage(m) transmits m if and only if the status is CONNECTED when
\* it is called, and changes nothing else.
C16_SentIffConnected ==
  [][ev'.op = "send"
       => /\ (status = CONNECTED => Len(tx') = 1 /\ tx'[1] \in OutboundMessages)
          /\ (status # CONNECTED => tx' = <<>>)
          /\ UNCHANGED sendFrame]_vars

\* C17: at most one heartbeat interval is active; between tasks one is active
\* only while the status is CONNECTED; and a ping is transmitted only while
\* the status is CONNECTED, on the open socket wsRef.current refers to.
C17_HeartbeatOnlyConnected ==
  /\ intervals <= 1
  /\ (pendingClose = "none" /\ intervals > 0) => status = CONNECTED
  /\ (ev.op = "heartbeat" /\ tx # <<>>) => (status = CONNECTED /\ wsRef = "open")
\* the step ran a close handler that found the retry budget used up
ExhaustedClose(e) == e.op = "close" /\ e.attempts >= maxReconnectAttempts

\* C18 as stated: the status becomes ERROR only by a close event that finds
\* the retry budget used up or by a connect() that finds no token; never by a
\* transport error event.
C18_FailedOnlyExhaustedOrNoToken ==
  [][(status' = ERROR /\ status # ERROR)
       => \/ ExhaustedClose(ev')
          \/ ConnectCalled(ev') /\ ev'.arg = 0]_vars

\* C18 amended: the status becomes ERROR only by a close event that finds the
\* retry budget used up, by a connect() that creates no socket (no token, or
\* the WebSocket constructor throws), or by a transport error event; and
\* after an error event that finds retries left, the close event that
\* follows it in the same task replaces ERROR by RECONNECTING.
C18_FailedAlsoOnErrorEvent ==
  [][/\ (status' = ERROR /\ status # ERROR)
          => \/ ExhaustedClose(ev')
             \/ ConnectCalled(ev') /\ wsRef' = wsRef /\ orphans' = orphans
             \/ ev'.op = "error"
     /\ (ev.op = "error" /\ ev'.op = "close" /\ ~ExhaustedClose(ev'))
          => status' = RECONNECTING]_vars

\* an error event that found retries left has set the status ERROR
C18_Witness ==
  /\ ev.op = "error" /\ ev.attempts < maxReconnectAttempts
  /\ status = ERROR /\ pendingClose # "none"
\* the steps in which the application calls connect() or disconnect()
ExplicitCall(e) == e.op \in {"connect", "disconnect", "mount", "unmount"}

\* C19: from a state between tasks whose status is ERROR, every step other
\* than a call of connect() or disconnect() finds no reconnect timer pending
\* and leaves the status ERROR.
C19_FailedUntilExplicitCall ==
  [][(status = ERROR /\ pendingClose = "none" /\ ~ExplicitCall(ev'))
       => (timeouts = 0 /\ status' = ERROR)]_vars
\* C20: once the effect's cleanup has run, no heartbeat interval and no
\* reconnect timer is pending, no handler of the hook runs any more (the
\* cleanup itself is the last step) and no transport is left connecting or
\* open.
C20_QuietAfterUnmount ==
  phase = "unmounted"
    => /\ ev.op = "unmount"
       /\ timeouts = 0 /\ intervals = 0
       /\ LiveTransports = 0
\* what a connect() that does nothing leaves alone: the status, the sockets,
\* the attempt counter, the reconnect timer and the heartbeat interval
connectFrame ==
  <<status, wsRef, orphans, reconnectAttemptsRef, timeouts, reconnectTimeoutRef,
    intervals, heartbeatIntervalRef>>

\* C21: connect() called while the status is CONNECTED changes nothing,
\* whether tokenManager.get() returns a token or not.
C21_ConnectWhileConnectedNoOp ==
  [][(ev'.op = "connect" /\ status = CONNECTED) => UNCHANGED connectFrame]_vars
\* C22: every new_mention message that carries an entity is passed to
\* onMessage in the step that delivers it, so in delivery order, and puts its
\* entity at the head of the buffer whether or not the buffer holds that
\* entity already: nothing is reordered, nothing is deduplicated.
C22_DeliveryOrderNoDedup ==
  [][(Received(ev', "new_mention") /\ Truthy(ev'.raw.msg.data))
       => /\ forwarded' = <<ev'.raw.msg>>
          /\ realtimeMentions' =
               slice(<<ev'.raw.msg.data>> \o realtimeMentions, Capacity)]_vars

\* an entity was delivered twice and stands twice in the buffer, in front of
\* the entity delivered before it
C22_Witness ==
  /\ Received(ev, "new_mention") /\ nMentions = 2
  /\ Len(realtimeMentions) >= 3
  /\ realtimeMentions[1] = Mention(2)
  /\ realtimeMentions[2] = Mention(2)
  /\ realtimeMentions[3] = Mention(1)
\* C23 as stated: the buffer and dashboardStats change only in steps that
\* run ws.onmessage.
C23_StoreWrittenByRouterOnly ==
  [][(realtimeMentions' # realtimeMentions \/ dashboardStats' # dashboardStats)
       => ev'.op = "message"]_vars

\* C23 amended: the buffer changes only by a new_mention message, by
\* clearMentions() and when getRecentMentions resolves; dashboardStats changes
\* only by a stats_update message and when getSentimentStats resolves.
C23_StoreWriters ==
  [][/\ realtimeMentions' # realtimeMentions
          => (Received(ev', "new_mention") \/ ev'.op \in {"clear", "loadMentions"})
     /\ dashboardStats' # dashboardStats
          => (Received(ev', "stats_update") \/ ev'.op = "loadStats")]_vars

\* the initial load has written the buffer and the summary and no message has
\* inserted an entity
C23_Witness ==
  /\ ev.op = "loadStats" /\ nMentions = 0
  /\ dashboardStats # Null /\ dashboardStats.new_today = 0
  /\ Len(realtimeMentions) = Capacity /\ realtimeMentions[1].id < 0
\* C25: a close or error event of a socket wsRef.current no longer refers to
\* leaves the status, the heartbeat interval, the attempt counter and the
\* reconnect timer as they were; and between tasks, while the socket
\* wsRef.current refers to is open, the status is CONNECTED.
C25_StaleEventsIgnored ==
  [][/\ (ev'.op \in {"close", "error"} /\ ev'.w = "orphan")
          => UNCHANGED <<status, intervals, heartbeatIntervalRef,
                         reconnectAttemptsRef, timeouts, reconnectTimeoutRef>>
     /\ (wsRef' = "open" /\ pendingClose' = "none") => status' = CONNECTED]_vars
\* the model holds as many timers or released sockets as its bounds allow, and
\* a handler that needs one more cannot run
Saturated == timeouts >= MaxTimers \/ NumOrphans(Cur) >= MaxOrphans

\* C26: with a token available and a server that accepts every connection,
\* every close event with a code other than 1000 that finds the attempt
\* counter below maxReconnectAttempts is eventually followed by a state whose
\* status is CONNECTED, unless disconnect() is called (or the run stops at a
\* bound of the model).
C26_ReconnectsEventually ==
  (AbnormalClose(ev) /\ ev.attempts < maxReconnectAttempts)
    ~> (status = CONNECTED \/ userClosed \/ Saturated)
\* C27: a call of connect() leaves the attempt counter as it was; the counter
\* returns to 0 only by an open event or by disconnect(); so a close event
\* with a code other than 1000 that finds the counter at
\* maxReconnectAttempts, as after a manual connect() that follows the
\* exhaustion of the retries, sets the status ERROR and schedules nothing.
C27_ConnectKeepsCounter ==
  [][/\ ConnectCalled(ev') => reconnectAttemptsRef' = reconnectAttemptsRef
     /\ (reconnectAttemptsRef > 0 /\ reconnectAttemptsRef' = 0)
          => ev'.op \in {"open", "disconnect", "unmount"}
     /\ (AbnormalClose(ev') /\ reconnectAttemptsRef = maxReconnectAttempts)
          => /\ status' = ERROR
             /\ timeouts' = timeouts
             /\ reconnectTimeoutRef' = reconnectTimeoutRef]_vars

\* after the retries were used up and no timer is left, connect() was called
\* with a token: a socket is connecting and the counter is still at its
\* maximum
C27_Witness ==
  /\ ev.op = "connect" /\ ev.arg = 1 /\ ev.attempts = maxReconnectAttempts
  /\ abnormalCloses > maxReconnectAttempts /\ timeouts = 0
  /\ status = CONNECTING /\ wsRef = "connecting"
  /\ reconnectAttemptsRef = maxReconnectAttempts
\* the entities of the sequence xs that new_mention messages carried
SocketEntities(xs) == {xs[i] : i \in {j \in 1..Len(xs) : xs[j].id > 0}}

\* C28: an entity a new_mention message put into the buffer leaves it only
\* by clearMentions() or when a new_mention message finds the buffer full;
\* and the completion of the initial load leaves a summary that a
\* stats_update message has stored as it was.
C28_LoadKeepsSocketData ==
  [][/\ SocketEntities(realtimeMentions) \ SocketEntities(realtimeMentions') # {}
          => \/ ev'.op = "clear"
             \/ Received(ev', "new_mention") /\ Len(realtimeMentions) = Capacity
     /\ (ev'.op = "loadStats" /\ dashboardStats # Null)
          => dashboardStats' = dashboardStats]_vars
\* C29: in every reachable state at most one reconnect timer is pending, and
\* it is the one reconnectTimeoutRef holds; so no timer is pending in the
\* state disconnect() leaves.
C29_OneTimerHeld ==
  /\ timeouts <= 1
  /\ timeouts = 1 => reconnectTimeoutRef = "pending"
  /\ ev.op \in {"disconnect", "unmount"} => timeouts = 0
====
